---- MODULE Spec2Model ----
(***************************************************************************)
(* FaissIndexManager (src/app/storage/faiss_index.py): a FAISS inner-      *)
(* product index held in memory, a SQLite "documents" table on disk, one   *)
(* threading.Lock around add_documents / search / persist / get_stats, and *)
(* the index artifact written by persist() and read back by __init__.      *)
(***************************************************************************)
EXTENDS Integers, Sequences, FiniteSets, TLC

(***************************************************************************)
(* Bounds of the model.                                                    *)
(***************************************************************************)
\* longest argument list handed to one add_documents call
MaxBatch == 2
\* cap on _doc_counter and on index.ntotal
MaxDocs == 2
\* vector length D of the embedding model the manager is constructed with
Dimension == 2
\* largest top_k a search is called with
MaxK == 2
\* longest text handed to chunk_text
MaxText == 7
\* largest max_size chunk_text is called with
MaxSize == 6

Threads == {"t1", "t2"}
Texts == {"a", "b"}
NoThread == "none"

Min(a, b) == IF a < b THEN a ELSE b

(***************************************************************************)
(* State.                                                                  *)
(***************************************************************************)
VARIABLES
  rows,      \* committed rows of the documents table (metadata_path)
  tx,        \* tx[t]: rows inserted on t's connection and not yet committed
  index,     \* self.index: the vectors of the in-memory FAISS index
  counter,   \* self._doc_counter
  lock,      \* holder of self.lock, or NoThread
  file,      \* the artifact at index_path
  dimension, \* self.dimension: the D the manager was constructed with
  indexDim,  \* self.index.d: the vector length the FAISS index holds
  pc,        \* pc[t]: where thread t is
  call,      \* call[t]: the arguments and locals of t's call in progress
  last,      \* the call that returned in the step leading here (history)
  chunker,   \* the run of chunk_text in progress: its arguments and locals
  handler,   \* handler[t]: the HTTP request t serves, and its locals
  running,   \* the request handler the event loop is running, or NoThread
  singleton  \* _index_manager and the threads calling get_index_manager

\* the state outside the index manager
aux == <<chunker, handler, running, singleton>>

\* the index manager and its callers, but for the record of the last return
stores == <<rows, tx, index, counter, lock, file, dimension, indexDim, pc,
            call>>

\* the state of the index manager and of its callers
manager == <<rows, tx, index, counter, lock, file, dimension, indexDim, pc,
             call, last>>

vars == <<manager, aux>>

\* the artifact: absent, unreadable, or an index written by write_index
\* (its vectors and its d)
NoFile == [state |-> "absent", vecs |-> <<>>, d |-> 0]
CorruptFile == [state |-> "corrupt", vecs |-> <<>>, d |-> 0]
OkFile(vecs) == [state |-> "ok", vecs |-> vecs, d |-> indexDim]

\* the stores as a call finds them
Snapshot == [rows |-> rows, index |-> index, counter |-> counter, file |-> file]

NoSnapshot == [rows |-> {}, index |-> <<>>, counter |-> 0, file |-> NoFile]

\* a thread's arguments and locals: lens are the lengths of texts,
\* embeddings, languages, filenames and chunk_indices; i counts the loop
\* iterations done; matched are the positions index.search answered with;
\* pre is the Snapshot taken when the call started
NoCallRec == [texts |-> <<>>, zipped |-> <<>>, i |-> 0, embeddings |-> <<>>,
              query |-> <<>>,
              top_k |-> 0, lens |-> <<0, 0, 0, 0, 0>>, doc_ids |-> <<>>,
              matched |-> <<>>, pre |-> NoSnapshot]

NoLast == [op |-> "none", outcome |-> "none", value |-> <<>>,
           arg |-> NoCallRec, log |-> <<>>, after |-> <<"none", "none">>]

\* a record written through logger: its level, its message and the count
\* the message carries (0 when it carries none)
LogRec(level, msg, n) == [level |-> level, msg |-> msg, n |-> n]

\* the record of a call that has just returned: its outcome ("ok" or
\* "error"), the value returned, its arguments, the log records it wrote,
\* and the call that returned right before it
Returned(op, outcome, value, arg, log) ==
  [op |-> op, outcome |-> outcome, value |-> value, arg |-> arg, log |-> log,
   after |-> <<last.op, last.outcome>>]

(***************************************************************************)
(* Callers' inputs (src/app/api/ingest.py, lines 100-115).                 *)
(***************************************************************************)
\* a unit vector of length n with its 1 at position p
UnitVec(n, p) == [i \in 1..n |-> IF i = p THEN 1 ELSE 0]

\* embed_texts: one normalised vector of the model's dimension per text
\* (the manager is constructed with the dimension of the embedding model)
Embed(text) == IF text = "a" THEN UnitVec(dimension, 1) ELSE UnitVec(dimension, 2)

\* a vector produced by a model of another dimension
BadEmbed(text) == UnitVec(dimension - 1, 1)

\* detect_language of a text
DetectLang(text) == IF text = "a" THEN "en" ELSE "ja"

\* the embeddings argument: ne vectors, those at the positions in bad of
\* the wrong length
EmbeddingsArg(texts, ne, bad) ==
  [j \in 1..ne |->
     LET text == IF j <= Len(texts) THEN texts[j] ELSE "a"
     IN  IF j \in bad THEN BadEmbed(text) ELSE Embed(text)]

\* the languages argument, nl entries long
LanguagesArg(texts, nl) ==
  [j \in 1..nl |-> IF j <= Len(texts) THEN DetectLang(texts[j]) ELSE "en"]

\* the filenames argument, nf entries long
FilenamesArg(nf) == [j \in 1..nf |-> "f.txt"]

\* the chunk_indices argument: list(range(nc))
ChunkIndicesArg(nc) == [j \in 1..nc |-> j - 1]

\* the lengths of languages, filenames and chunk_indices: those of a
\* well-formed call, or with languages of another length (zip treats its
\* arguments alike)
MetaLens(n) == {<<k, n, n>> : k \in 0..MaxBatch}

\* the positions holding a wrong-length vector: none, the last, or all
BadSets(n) == {{}, {n} \cap (1..n), 1..n}

(***************************************************************************)
(* SQLite and FAISS primitives as the manager uses them.                   *)
(***************************************************************************)
\* f"doc_{self._doc_counter}"
DocId(id) == "doc_" \o ToString(id)

\* zip(texts, languages, filenames, chunk_indices): stops at the shortest
Zip(texts, languages, filenames, chunk_indices) ==
  LET n == Min(Min(Len(texts), Len(languages)),
               Min(Len(filenames), Len(chunk_indices)))
  IN  [j \in 1..n |-> [text |-> texts[j], language |-> languages[j],
                       filename |-> filenames[j],
                       chunk_index |-> chunk_indices[j]]]

\* the row the INSERT statement writes, in the columns that are read back
\* (chunk_index and created_at are written and never selected)
MakeRow(id, z) ==
  [id |-> id, doc_id |-> DocId(id), text |-> z.text, language |-> z.language,
   filename |-> z.filename]

\* id INTEGER PRIMARY KEY, doc_id TEXT UNIQUE: the INSERT is refused when
\* the connection sees a row with that id or doc_id
InsertConflicts(row, visible) ==
  \E r \in visible : r.id = row.id \/ r.doc_id = row.doc_id

\* SELECT MAX(id) FROM documents; max_id if max_id else 0
MaxId(rs) ==
  IF rs = {} THEN 0 ELSE CHOOSE m \in {r.id : r \in rs} : \A r \in rs : r.id <= m

\* np.array(embeddings).astype('float32') and index.add: a batch is taken
\* when it is a non-empty n x d matrix with d == self.d
IndexAddAcceptsAny(embs) == Len(embs) > 0
IndexAddAccepts(embs) ==
  /\ Len(embs) > 0
  /\ \A j \in 1..Len(embs) : Len(embs[j]) = indexDim

\* the five argument lists are not all of one length
LensDiffer(lens) == \E i \in 1..5, j \in 1..5 : lens[i] # lens[j]

\* some embedding is not of the configured dimension
HasWrongDimension(embs) == \E j \in 1..Len(embs) : Len(embs[j]) # dimension

\* SELECT COUNT(*) FROM documents, index.ntotal, self.dimension
GetStats(rs, idx) ==
  [total_documents |-> Cardinality(rs), total_vectors |-> Len(idx),
   dimension |-> dimension]

(***************************************************************************)
(* Construction: __init__ and _load_or_create_index.                       *)
(***************************************************************************)
\* the dimensions an embedding model may have: the configured one, and
\* that of another model the deployment is switched to
Dimensions == {Dimension, Dimension + 1}

\* faiss.read_index of the artifact raises on a corrupt file
ReadIndexNeverFails(f) == FALSE
ReadIndexFails(f) == f.state = "corrupt"

\* _create_new_index: IndexFlatIP(self.dimension) and its info record
CreateNewIndex(d) ==
  [index |-> <<>>, d |-> d, counter |-> 0, log |-> "created",
   records |-> <<LogRec("info", "created", d)>>]

\* the index, its d, the counter and the log records construction with
\* dimension d ends with; log names the branch taken. read_index gives the
\* index the artifact holds, of the d it was written with
LoadOrCreateIndex(f, rs, d) ==
  IF f.state = "absent"
  THEN CreateNewIndex(d)
  ELSE IF ReadIndexFails(f)
  THEN [CreateNewIndex(d) EXCEPT
          !.log = "warning",
          !.records = <<LogRec("warning", "load_failed", 0)>> \o @]
  ELSE [index |-> f.vecs, d |-> f.d, counter |-> MaxId(rs), log |-> "loaded",
        records |-> <<LogRec("info", "loaded", Len(f.vecs))>>]

\* no text is being chunked
NoChunker == [text |-> <<>>, max_size |-> 0, overlap |-> 0, start |-> 0,
              chunks |-> <<>>, windows |-> <<>>, pc |-> "idle"]

\* the manager constructed over empty paths, no call in progress
InitManager ==
  /\ rows = {}
  /\ tx = [t \in Threads |-> {}]
  /\ index = <<>>
  /\ counter = 0
  /\ lock = NoThread
  /\ file = NoFile
  /\ dimension = Dimension
  /\ indexDim = Dimension
  /\ pc = [t \in Threads |-> "idle"]
  /\ call = [t \in Threads |-> NoCallRec]
  /\ last = NoLast

\* the module has been imported: _index_manager is None (0), no manager
\* has been constructed, no thread is in get_index_manager.  made counts
\* the constructions and names the instances, local[t] is the manager t
\* has constructed or been returned, locked the instances whose lock is
\* held, returned the instances get_index_manager has returned
NoSingleton ==
  [global |-> 0, made |-> 0, pc |-> [t \in Threads |-> "idle"],
   local |-> [t \in Threads |-> 0], calls |-> [t \in Threads |-> 0],
   locked |-> {}, returned |-> {}]

\* no request is being served.  files is the number of uploaded files, i
\* the file the loop is at, n the number of its chunks, details holds one
\* entry per file (its status and the chunks counted for it)
NoHandler ==
  [pc |-> "idle", endpoint |-> "none", key |-> "none",
   files |-> 0, i |-> 0, n |-> 0, details |-> <<>>, processed |-> 0, total |-> 0, persists |-> 0,
   touched |-> FALSE, embedded |-> FALSE, status |-> 0]

Init ==
  /\ InitManager
  /\ chunker = NoChunker
  /\ handler = [t \in Threads |-> NoHandler]
  /\ running = NoThread
  /\ singleton = NoSingleton

\* The process ends (a crash or a shutdown: every call in progress is gone
\* and open transactions are rolled back by SQLite) and a new manager is
\* constructed over the same paths with dimension d; the value recorded is
\* the branch _load_or_create_index took, the log holds the record of
\* _init_metadata_db and those of _load_or_create_index.
Construct(d) ==
  LET m == LoadOrCreateIndex(file, rows, d)
  IN  /\ dimension' = d
      /\ index' = m.index
      /\ indexDim' = m.d
      /\ counter' = m.counter
      /\ lock' = NoThread
      /\ tx' = [t \in Threads |-> {}]
      /\ pc' = [t \in Threads |-> "idle"]
      /\ call' = [t \in Threads |-> NoCallRec]
      /\ last' = Returned("restart", "ok", m.log,
                          [NoCallRec EXCEPT !.pre = Snapshot],
                          <<LogRec("info", "metadata_initialized", 0)>>
                            \o m.records)
      /\ UNCHANGED <<rows, file, aux>>

\* the service is started again with the embedding model it had
Restart == Construct(dimension)

\* the service is started again with an embedding model of another
\* dimension (get_index_manager passes embedding_model.dimension)
Reconfigure == \E d \in Dimensions \ {dimension} : Construct(d)

(***************************************************************************)
(* with self.lock                                                          *)
(***************************************************************************)
LockFreeAlways(t) == TRUE
LockFree(t) == lock = NoThread

Acquire(t) == LockFree(t) /\ lock' = t
Release(t) == lock' = NoThread

\* no return is waiting to be taken by its caller
Quiet == last = NoLast

\* the thread leaves its call: the lock is released and the call recorded
Return(t, op, outcome, value, log) ==
  /\ Release(t)
  /\ pc' = [pc EXCEPT ![t] = "idle"]
  /\ call' = [call EXCEPT ![t] = NoCallRec]
  /\ last' = Returned(op, outcome, value, call[t], log)

\* a step inside a call, to the next position
Goto(t, where) ==
  /\ pc' = [pc EXCEPT ![t] = where]
  /\ last' = NoLast

(***************************************************************************)
(* add_documents                                                           *)
(***************************************************************************)
\* lines 105-106: len(texts) != len(embeddings) raises before the lock.
\* The check reads and writes nothing shared, so the calls it rejects are
\* placed between the other threads' calls.
AddReject(t) ==
  /\ Quiet
  /\ pc[t] = "idle"
  /\ lock = NoThread
  /\ \E nt \in 0..MaxBatch, ne \in 0..MaxBatch :
       /\ nt # ne
       /\ last' = Returned("add", "error", <<>>,
                           [NoCallRec EXCEPT !.lens = <<nt, ne, nt, nt, nt>>,
                                             !.pre = Snapshot],
                           <<>>)
  /\ UNCHANGED <<rows, tx, index, counter, lock, file, dimension, indexDim,
                 pc, call, aux>>

\* lines 108-111: the lock is taken, the connection opened
AddEnter(t) ==
  /\ Quiet
  /\ Acquire(t)
  /\ \E n \in 0..MaxBatch :
       /\ Len(index) + n <= MaxDocs
       /\ \E texts \in [1..n -> Texts], lens \in MetaLens(n) :
            LET zipped == Zip(texts, LanguagesArg(texts, lens[1]),
                              FilenamesArg(lens[2]), ChunkIndicesArg(lens[3]))
            IN  /\ counter + Len(zipped) <= MaxDocs
                /\ call' = [call EXCEPT ![t] =
                             [NoCallRec EXCEPT
                                !.texts = texts,
                                !.zipped = zipped,
                                !.lens = <<n, n, lens[1], lens[2], lens[3]>>,
                                !.pre = Snapshot]]
                /\ Goto(t, IF zipped = <<>> THEN "add_index" ELSE "add_insert")
  /\ UNCHANGED <<rows, tx, index, counter, file, dimension, indexDim, aux>>

\* lines 105-111: add_documents is called, the length check passes and
\* the lock is taken
AddBegin(t) ==
  /\ pc[t] = "idle"
  /\ AddEnter(t)

\* lines 137-142: except: conn.rollback(); logger.error; raise, and the
\* lock released
AddRaiseKeepsLock(t) ==
  /\ tx' = [tx EXCEPT ![t] = {}]
  /\ pc' = [pc EXCEPT ![t] = "idle"]
  /\ call' = [call EXCEPT ![t] = NoCallRec]
  /\ last' = Returned("add", "error", <<>>, call[t],
                      <<LogRec("error", "add_failed", 0)>>)
  /\ UNCHANGED lock
AddRaise(t) ==
  /\ tx' = [tx EXCEPT ![t] = {}]
  /\ Return(t, "add", "error", <<>>, <<LogRec("error", "add_failed", 0)>>)

\* lines 114-128: one iteration of the loop; the INSERT raises on a
\* conflict or on an I/O failure of the database
AddInsert(t) ==
  /\ Quiet
  /\ pc[t] = "add_insert"
  /\ LET c == call[t]
         id == counter + 1
         row == MakeRow(id, c.zipped[c.i + 1])
     IN  /\ counter' = id
         /\ \E io_ok \in BOOLEAN :
              IF io_ok /\ ~InsertConflicts(row, rows \cup tx[t])
              THEN /\ tx' = [tx EXCEPT ![t] = @ \cup {row}]
                   /\ call' = [call EXCEPT ![t].i = c.i + 1,
                                           ![t].doc_ids = Append(@, row.doc_id)]
                   /\ Goto(t, IF c.i + 1 = Len(c.zipped)
                              THEN "add_index" ELSE "add_insert")
                   /\ UNCHANGED lock
              ELSE AddRaise(t)
  /\ UNCHANGED <<rows, index, file, dimension, indexDim, aux>>

\* lines 130-132, where the content of embeddings is first read: one
\* vector per text, some of them of the wrong length in a faulty call; all
\* of embeddings is appended, or index.add raises
AddVectors(t) ==
  /\ Quiet
  /\ pc[t] = "add_index"
  /\ \E bad \in BadSets(Len(call[t].texts)) :
       LET embs == EmbeddingsArg(call[t].texts, Len(call[t].texts), bad)
       IN  IF IndexAddAccepts(embs)
           THEN /\ index' = index \o embs
                /\ call' = [call EXCEPT ![t].embeddings = embs]
                /\ Goto(t, "add_commit")
                /\ UNCHANGED <<tx, lock>>
           ELSE /\ tx' = [tx EXCEPT ![t] = {}]
                /\ Release(t)
                /\ pc' = [pc EXCEPT ![t] = "idle"]
                /\ call' = [call EXCEPT ![t] = NoCallRec]
                /\ last' = Returned("add", "error", <<>>,
                                    [call[t] EXCEPT !.embeddings = embs],
                                    <<LogRec("error", "add_failed", 0)>>)
                /\ UNCHANGED index
  /\ UNCHANGED <<rows, counter, file, dimension, indexDim, aux>>

\* lines 134-144: conn.commit() makes the rows durable and the doc ids are
\* returned, or it raises and the rows are rolled back
AddCommit(t) ==
  /\ Quiet
  /\ pc[t] = "add_commit"
  /\ \E io_ok \in BOOLEAN :
       IF io_ok
       THEN /\ rows' = rows \cup tx[t]
            /\ tx' = [tx EXCEPT ![t] = {}]
            /\ Return(t, "add", "ok", call[t].doc_ids,
                      <<LogRec("info", "added", Len(call[t].doc_ids))>>)
       ELSE /\ AddRaise(t)
            /\ UNCHANGED rows
  /\ UNCHANGED <<index, counter, file, dimension, indexDim, aux>>

(***************************************************************************)
(* search                                                                  *)
(***************************************************************************)
RECURSIVE Dot(_, _)
\* inner product of two vectors of one length (IndexFlatIP's similarity)
Dot(q, v) == IF Len(q) = 0 THEN 0 ELSE q[1] * v[1] + Dot(Tail(q), Tail(v))

\* what a search is called with
Queries == {Embed(x) : x \in Texts} \cup {BadEmbed(x) : x \in Texts}
TopKs == (0 - 1)..MaxK

\* index.search(query, k), 1 <= k <= ntotal: the 0-based positions of k
\* vectors of largest inner product, best first; FAISS fixes no order
\* among equal scores, so every such ordering is a possible answer
Rankings(idx, q, k) ==
  {s \in [1..k -> 0..(Len(idx) - 1)] :
     /\ \A i \in 1..k, j \in 1..k : i # j => s[i] # s[j]
     /\ \A i \in 1..k, j \in 1..k :
          i < j => Dot(q, idx[s[i] + 1]) >= Dot(q, idx[s[j] + 1])
     /\ \A p \in 0..(Len(idx) - 1) :
          (\A i \in 1..k : s[i] # p)
            => \A i \in 1..k : Dot(q, idx[p + 1]) <= Dot(q, idx[s[i] + 1])}

RECURSIVE EnrichOffByOne(_, _, _, _)
EnrichOffByOne(s, idx, q, rs) ==
  IF s = <<>> THEN <<>>
  ELSE LET db_id == Head(s)
           found == {r \in rs : r.id = db_id}
           rest == EnrichOffByOne(Tail(s), idx, q, rs)
       IN  IF found = {} THEN rest
           ELSE LET row == CHOOSE r \in found : TRUE
                IN  <<[doc_id |-> row.doc_id, text |-> row.text,
                       language |-> row.language, filename |-> row.filename,
                       score |-> Dot(q, idx[Head(s) + 1])]>> \o rest

RECURSIVE EnrichStopsAtMissing(_, _, _, _)
EnrichStopsAtMissing(s, idx, q, rs) ==
  IF s = <<>> THEN <<>>
  ELSE LET db_id == Head(s) + 1
           found == {r \in rs : r.id = db_id}
       IN  IF found = {} THEN <<>>
           ELSE LET row == CHOOSE r \in found : TRUE
                IN  <<[doc_id |-> row.doc_id, text |-> row.text,
                       language |-> row.language, filename |-> row.filename,
                       score |-> Dot(q, idx[db_id])]>>
                      \o EnrichStopsAtMissing(Tail(s), idx, q, rs)

RECURSIVE Enrich(_, _, _, _)
\* lines 178-198: the result list for the matched positions, in order; a
\* position with no row of id position + 1 adds nothing
Enrich(s, idx, q, rs) ==
  IF s = <<>> THEN <<>>
  ELSE LET db_id == Head(s) + 1
           found == {r \in rs : r.id = db_id}
           rest == Enrich(Tail(s), idx, q, rs)
       IN  IF found = {} THEN rest
           ELSE LET row == CHOOSE r \in found : TRUE
                IN  <<[doc_id |-> row.doc_id, text |-> row.text,
                       language |-> row.language, filename |-> row.filename,
                       score |-> Dot(q, idx[db_id])]>> \o rest

\* line 161: the lock is taken
SearchEnter(t) ==
  /\ Quiet
  /\ Acquire(t)
  /\ call' = [call EXCEPT ![t] = [NoCallRec EXCEPT !.pre = Snapshot]]
  /\ Goto(t, "search")
  /\ UNCHANGED <<rows, tx, index, counter, file, dimension, indexDim, aux>>

\* search is called and the lock taken
SearchBegin(t) ==
  /\ pc[t] = "idle"
  /\ SearchEnter(t)

\* lines 171-172 on, once the index is known to hold vectors: a query of
\* another length than the index's d, or min(top_k, ntotal) < 1, makes
\* index.search raise (k = 0 is answered with no result by FAISS builds
\* that do not check k); else the enriched results
SearchNonEmpty(q, top_k, idx, rs) ==
  LET k == Min(top_k, Len(idx))
  IN  IF Len(q) # indexDim \/ k < 0 THEN {<<"error", <<>>, <<>>>>}
      ELSE IF k = 0 THEN {<<"error", <<>>, <<>>>>, <<"ok", <<>>, <<>>>>}
      ELSE {<<"ok", Enrich(s, idx, q, rs), s>> : s \in Rankings(idx, q, k)}

\* what search(q, top_k) may do: <<"ok", the value returned, the positions
\* index.search matched>>, or "error" when it raises.  Lines 162-163: an
\* empty index is answered with [] before anything else is looked at
SearchOutcomesNoEmptyCheck(q, top_k, idx, rs) == SearchNonEmpty(q, top_k, idx, rs)
SearchOutcomes(q, top_k, idx, rs) ==
  IF Len(idx) = 0 THEN {<<"ok", <<>>, <<>>>>}
  ELSE SearchNonEmpty(q, top_k, idx, rs)

\* the log records of a search: lines 161-201 call logger nowhere, and the
\* list returned holds results only
SearchLog(matched, rs) == <<>>

\* lines 162-201, with the arguments the caller passed
SearchEnd(t) ==
  /\ Quiet
  /\ pc[t] = "search"
  /\ \E q \in Queries, top_k \in TopKs :
       \E out \in SearchOutcomes(q, top_k, index, rows) :
         /\ Release(t)
         /\ pc' = [pc EXCEPT ![t] = "idle"]
         /\ call' = [call EXCEPT ![t] = NoCallRec]
         /\ last' = Returned("search", out[1], out[2],
                             [call[t] EXCEPT !.query = q, !.top_k = top_k,
                                             !.matched = out[3]],
                             SearchLog(out[3], rows))
  /\ UNCHANGED <<rows, tx, index, counter, file, dimension, indexDim, aux>>

(***************************************************************************)
(* persist                                                                 *)
(***************************************************************************)
\* line 205: the lock is taken
PersistEnter(t) ==
  /\ Quiet
  /\ Acquire(t)
  /\ call' = [call EXCEPT ![t] = [NoCallRec EXCEPT !.pre = Snapshot]]
  /\ Goto(t, "persist")
  /\ UNCHANGED <<rows, tx, index, counter, file, dimension, indexDim, aux>>

\* persist is called and the lock taken
PersistBegin(t) ==
  /\ pc[t] = "idle"
  /\ PersistEnter(t)

\* faiss.write_index(self.index, path): the artifact now holds the index
WriteIndexNothing(idx) == file
WriteIndex(idx) == OkFile(idx)

\* line 206: if self.index and self.index.ntotal > 0
PersistWritesAlways(idx) == TRUE
PersistWrites(idx) == Len(idx) > 0

\* lines 206-208: a non-empty index is written to index_path and the
\* write logged; a write that raises leaves the artifact as it was or
\* truncated, and the exception leaves persist (nothing catches it).  The
\* value recorded is what became of the write.
PersistEndSwallows(t) ==
  /\ Quiet
  /\ pc[t] = "persist"
  /\ IF PersistWrites(index)
     THEN \/ /\ file' = WriteIndex(index)
             /\ Return(t, "persist", "ok", "written",
                       <<LogRec("info", "persisted", Len(index))>>)
          \/ /\ file' \in {file, CorruptFile}
             /\ Return(t, "persist", "ok", "write_failed", <<>>)
     ELSE /\ Return(t, "persist", "ok", "nothing", <<>>)
          /\ UNCHANGED file
  /\ UNCHANGED <<rows, tx, index, counter, dimension, indexDim, aux>>
PersistEnd(t) ==
  /\ Quiet
  /\ pc[t] = "persist"
  /\ IF PersistWrites(index)
     THEN \/ /\ file' = WriteIndex(index)
             /\ Return(t, "persist", "ok", "written",
                       <<LogRec("info", "persisted", Len(index))>>)
          \/ /\ file' \in {file, CorruptFile}
             /\ Return(t, "persist", "error", "write_failed", <<>>)
     ELSE /\ Return(t, "persist", "ok", "nothing", <<>>)
          /\ UNCHANGED file
  /\ UNCHANGED <<rows, tx, index, counter, dimension, indexDim, aux>>

(***************************************************************************)
(* get_stats                                                               *)
(***************************************************************************)
\* line 212: the lock is taken
StatsEnter(t) ==
  /\ Quiet
  /\ Acquire(t)
  /\ call' = [call EXCEPT ![t] = [NoCallRec EXCEPT !.pre = Snapshot]]
  /\ Goto(t, "stats")
  /\ UNCHANGED <<rows, tx, index, counter, file, dimension, indexDim, aux>>

\* get_stats is called and the lock taken
StatsBegin(t) ==
  /\ pc[t] = "idle"
  /\ StatsEnter(t)

\* lines 213-223: the counts are returned, or the database raises (no
\* except in get_stats: the exception leaves it)
StatsEndResyncs(t) ==
  /\ Quiet
  /\ pc[t] = "stats"
  /\ \E io_ok \in BOOLEAN :
       IF io_ok THEN Return(t, "stats", "ok", GetStats(rows, index), <<>>)
       ELSE Return(t, "stats", "error", <<>>, <<>>)
  /\ counter' = Cardinality(rows)
  /\ UNCHANGED <<rows, tx, index, file, dimension, indexDim, aux>>
StatsEnd(t) ==
  /\ Quiet
  /\ pc[t] = "stats"
  /\ \E io_ok \in BOOLEAN :
       IF io_ok THEN Return(t, "stats", "ok", GetStats(rows, index), <<>>)
       ELSE Return(t, "stats", "error", <<>>, <<>>)
  /\ UNCHANGED <<rows, tx, index, counter, file, dimension, indexDim, aux>>

(***************************************************************************)
(* The system.                                                             *)
(***************************************************************************)
\* the returned value has been taken by the caller: the history of the
\* last return is dropped
Observe ==
  /\ last # NoLast
  /\ last' = NoLast
  /\ UNCHANGED <<rows, tx, index, counter, lock, file, dimension, indexDim,
                 pc, call, aux>>

Next ==
  \/ \E t \in Threads : AddReject(t)
  \/ \E t \in Threads : AddBegin(t)
  \/ \E t \in Threads : AddInsert(t)
  \/ \E t \in Threads : AddVectors(t)
  \/ \E t \in Threads : AddCommit(t)
  \/ \E t \in Threads : SearchBegin(t)
  \/ \E t \in Threads : SearchEnd(t)
  \/ \E t \in Threads : PersistBegin(t)
  \/ \E t \in Threads : PersistEnd(t)
  \/ \E t \in Threads : StatsBegin(t)
  \/ \E t \in Threads : StatsEnd(t)
  \/ Observe
  \/ Restart

Spec == Init /\ [][Next]_vars

\* The manager in a process that keeps running, with the threads that
\* wait for the lock told apart from those that hold it: a thread calls a
\* method and stands at its 'with self.lock' (lines 108, 161, 205, 212)
\* until the lock is given to it.
LockPcs == {"add_lock", "search_lock", "persist_lock", "stats_lock"}

\* a method of the manager is called: the thread reaches 'with self.lock'
Call(t) ==
  /\ Quiet
  /\ pc[t] = "idle"
  /\ \E where \in LockPcs : Goto(t, where)
  /\ UNCHANGED <<rows, tx, index, counter, lock, file, dimension, indexDim,
                 call, aux>>

\* 'with self.lock' is entered: threading.Lock gives the lock to the
\* thread once it is free.  The batches are of lists of one length
WithLock(t) ==
  \/ /\ pc[t] = "add_lock"
     /\ AddEnter(t)
     /\ ~LensDiffer(call'[t].lens)
  \/ pc[t] = "search_lock" /\ SearchEnter(t)
  \/ pc[t] = "persist_lock" /\ PersistEnter(t)
  \/ pc[t] = "stats_lock" /\ StatsEnter(t)

\* search returns or raises; the queries are of the right and of the
\* wrong dimension, top_k is the largest
SearchDone(t) ==
  /\ SearchEnd(t)
  /\ last'.arg.top_k = MaxK

NextLive ==
  \/ \E t \in Threads : Call(t)
  \/ \E t \in Threads : WithLock(t)
  \/ \E t \in Threads : AddInsert(t)
  \/ \E t \in Threads : AddVectors(t)
  \/ \E t \in Threads : AddCommit(t)
  \/ \E t \in Threads : SearchDone(t)
  \/ \E t \in Threads : PersistEnd(t)
  \/ \E t \in Threads : StatsEnd(t)
  \/ Observe

\* Every disk and index operation returns or raises, the caller takes
\* what a call returned, and a thread that stands at a lock that stays
\* free is given it.  threading.Lock fixes no order among the threads that
\* wait, so nothing more is assumed of it.
Fairness ==
  /\ WF_vars(Observe)
  /\ \A t \in Threads :
       /\ WF_vars(WithLock(t))
       /\ WF_vars(AddInsert(t))
       /\ WF_vars(AddVectors(t))
       /\ WF_vars(AddCommit(t))
       /\ WF_vars(SearchDone(t))
       /\ WF_vars(PersistEnd(t))
       /\ WF_vars(StatsEnd(t))

SpecLive == Init /\ [][NextLive]_vars /\ Fairness

\* The system when the embedding model may be replaced between two runs.
NextDim ==
  \/ Next
  \/ Reconfigure

SpecDim == Init /\ [][NextDim]_vars

(***************************************************************************)
(* chunk_text (src/app/api/ingest.py, lines 15-52).  A text is a sequence  *)
(* of characters; positions are 0-based as in the code.                    *)
(***************************************************************************)
\* the characters of the texts chunked here: a letter, a full stop and a
\* newline
Chars == {"x", ".", "nl"}

\* the characters str.strip() removes
Whitespace == {"nl", " "}

\* line 39: the sentence endings in the order they are tried ("jdot",
\* "jbang" and "jq" stand for the full-width characters)
Delimiters ==
  <<<<"jdot">>, <<".">>, <<"jbang">>, <<"!">>, <<"jq">>, <<"?">>,
    <<"nl", "nl">>>>

Max(a, b) == IF a > b THEN a ELSE b

\* text[a:b]: a negative bound counts from the end, and both are clipped
\* to the text
PySlice(text, a, b) ==
  LET n == Len(text)
      lo == IF a < 0 THEN Max(a + n, 0) ELSE Min(a, n)
      hi == IF b < 0 THEN Max(b + n, 0) ELSE Min(b, n)
  IN  IF hi <= lo THEN <<>> ELSE SubSeq(text, lo + 1, hi)

RECURSIVE Strip(_)
\* str.strip()
Strip(w) ==
  IF w = <<>> THEN <<>>
  ELSE IF Head(w) \in Whitespace THEN Strip(Tail(w))
  ELSE IF w[Len(w)] \in Whitespace THEN Strip(SubSeq(w, 1, Len(w) - 1))
  ELSE w

\* w.rfind(d): the highest position at which d occurs in w, or -1
RFind(w, d) ==
  LET at == {i \in 0..(Len(w) - Len(d)) : SubSeq(w, i + 1, i + Len(d)) = d}
  IN  IF at = {} THEN 0 - 1
      ELSE CHOOSE i \in at : \A j \in at : j <= i

\* line 41: last_delim > max_size * 0.6
QualifiesAlways(last_delim, max_size) == last_delim >= 0
Qualifies(last_delim, max_size) == 10 * last_delim > 6 * max_size

\* lines 34-43: the end of the window that starts at start
CutEnd(text, start, max_size) ==
  LET end == start + max_size
      window == PySlice(text, start, end)
      found == {k \in 1..Len(Delimiters) :
                  Qualifies(RFind(window, Delimiters[k]), max_size)}
      first == CHOOSE k \in found : \A j \in found : k <= j
  IN  IF end < Len(text) /\ found # {}
      THEN start + RFind(window, Delimiters[first]) + 1
      ELSE end

\* line 27: the text fits one chunk
FitsWholeStrict(text, max_size) == Len(text) < max_size
FitsWhole(text, max_size) == Len(text) <= max_size

\* line 50: start = end - overlap if end < len(text) else end
NextStartNoOverlap(end, overlap, n) == end
NextStart(end, overlap, n) == IF end < n THEN end - overlap ELSE end

\* the loop runs at most this often here (a run that does not advance
\* would fill the memory with chunks)
MaxIterations == MaxText + 1

\* a call chunk_text(text, max_size, overlap) about to run
ChunkCall(text, max_size, overlap) ==
  [NoChunker EXCEPT !.text = text, !.max_size = max_size,
                    !.overlap = overlap, !.pc = "entry"]

\* the texts and the (max_size, overlap) chunk_text is called with
ChunkTexts == UNION {[1..n -> Chars] : n \in 0..MaxText}

InitChunk ==
  /\ InitManager
  /\ handler = [t \in Threads |-> NoHandler]
  /\ running = NoThread
  /\ singleton = NoSingleton
  /\ chunker \in {ChunkCall(text, max_size, overlap) :
                    text \in ChunkTexts, max_size \in 1..MaxSize,
                    overlap \in 0..(MaxSize - 1)}
  /\ chunker.overlap < chunker.max_size

\* lines 27-28: a text no longer than max_size is returned as it is
ChunkWhole ==
  /\ chunker.pc = "entry"
  /\ FitsWhole(chunker.text, chunker.max_size)
  /\ chunker' = [chunker EXCEPT !.chunks = <<chunker.text>>,
                                  !.windows = <<<<0, Len(chunker.text)>>>>,
                                  !.pc = "done"]
  /\ UNCHANGED <<manager, handler, running, singleton>>

\* lines 30-31: chunks = [], start = 0
ChunkEnter ==
  /\ chunker.pc = "entry"
  /\ ~FitsWhole(chunker.text, chunker.max_size)
  /\ chunker' = [chunker EXCEPT !.start = 0, !.pc = "loop"]
  /\ UNCHANGED <<manager, handler, running, singleton>>

\* lines 33-50: one iteration of the loop; windows keeps the start and the
\* end of every iteration
ChunkStep ==
  /\ chunker.pc = "loop"
  /\ chunker.start < Len(chunker.text)
  /\ Len(chunker.windows) < MaxIterations
  /\ LET c == chunker
         end == CutEnd(c.text, c.start, c.max_size)
         chunk == Strip(PySlice(c.text, c.start, end))
     IN  chunker' = [c EXCEPT
           !.chunks = IF chunk # <<>> THEN Append(@, chunk) ELSE @,
           !.windows = Append(@, <<c.start, end>>),
           !.start = NextStart(end, c.overlap, Len(c.text))]
  /\ UNCHANGED <<manager, handler, running, singleton>>

\* lines 33 and 52: the loop ends and chunks is returned
ChunkReturn ==
  /\ chunker.pc = "loop"
  /\ ~(chunker.start < Len(chunker.text))
  /\ chunker' = [chunker EXCEPT !.pc = "done"]
  /\ UNCHANGED <<manager, handler, running, singleton>>

NextChunk ==
  \/ ChunkWhole
  \/ ChunkEnter
  \/ ChunkStep
  \/ ChunkReturn

SpecChunk == InitChunk /\ [][NextChunk]_vars

(***************************************************************************)
(* The HTTP API: verify_api_key (src/app/core/auth.py), ingest_documents   *)
(* (src/app/api/ingest.py), retrieve_documents (src/app/api/retrieve.py)   *)
(* and generate_response (src/app/api/generate.py).  The handlers are      *)
(* coroutines of one event loop: a handler runs until it awaits or         *)
(* returns, and the manager is the one the lifespan constructed.           *)
(***************************************************************************)
\* settings.api_key
ApiKey == "right"

\* the X-API-Key header of a request: absent, empty, another key, the key
Keys == {"missing", "", "wrong", ApiKey}

Endpoints == {"ingest", "retrieve", "generate"}

\* an uploaded file: not a .txt, a .txt of whitespace only, a .txt with text
FileKinds == {"pdf", "empty", "txt"}

\* the numbers of chunks a text is cut into
ChunkCounts == {1, 2}

\* the most files in one upload
MaxFiles == 2

\* the event loop is free to run t
CanRun(t) == running \in {NoThread, t}

\* Header(...) and verify_api_key, lines 5-18: the status the request is
\* refused with, or 0 when the key is accepted
VerifyApiKeyAcceptsAll(key) == 0
VerifyApiKey(key) ==
  IF key = "missing" THEN 422
  ELSE IF key = "" \/ key # ApiKey THEN 401
  ELSE 0

\* the handler returns or raises: the response is built
Respond(t, status) ==
  /\ handler' = [handler EXCEPT ![t].pc = "responded", ![t].status = status]
  /\ running' = t

\* the event loop takes up a request
Receive(t) ==
  /\ handler[t].pc = "idle"
  /\ running = NoThread
  /\ running' = t
  /\ \E endpoint \in Endpoints, key \in Keys :
       handler' = [handler EXCEPT ![t] =
         [NoHandler EXCEPT !.pc = "auth", !.endpoint = endpoint,
                           !.key = key]]
  /\ UNCHANGED <<manager, chunker, singleton>>

\* FastAPI resolves Depends(verify_api_key) and then validates the
\* request against the endpoint's parameters (422 if it is not valid)
\* before the handler body runs
Authenticate(t) ==
  /\ handler[t].pc = "auth"
  /\ running = t
  /\ LET refused == VerifyApiKey(handler[t].key)
     IN  IF refused # 0 THEN Respond(t, refused)
         ELSE \E valid \in BOOLEAN :
                IF ~valid THEN Respond(t, 422)
                ELSE /\ handler' = [handler EXCEPT ![t].pc = "handler"]
                     /\ running' = t
  /\ UNCHANGED <<manager, chunker, singleton>>

\* ingest lines 139-145: the exception of one file is logged, the file
\* gets an "error" entry and the loop goes on
OnFileErrorAbort(a) ==
  [a EXCEPT !.details = Append(@, [status |-> "error", chunks |-> 0]),
            !.n = 0, !.embedded = FALSE, !.pc = "persist"]
OnFileError(a) ==
  [a EXCEPT !.details = Append(@, [status |-> "error", chunks |-> 0]),
            !.i = @ + 1, !.n = 0, !.embedded = FALSE, !.pc = "file"]

\* ingest lines 80-85 and 92-97: the file is skipped
OnFileSkipped(a) ==
  [a EXCEPT !.details = Append(@, [status |-> "skipped", chunks |-> 0]),
            !.i = @ + 1, !.pc = "file"]

\* ingest lines 66-74: no file: 400; else get_embedding_model and
\* get_index_manager.  retrieve lines 31-32, generate lines 97-98:
\* detect_language
HandlerStart(t) ==
  /\ handler[t].pc = "handler"
  /\ running = t
  /\ IF handler[t].endpoint = "ingest"
     THEN \E files \in 0..MaxFiles :
            IF files = 0
            THEN Respond(t, 400)
            ELSE /\ handler' = [handler EXCEPT ![t].files = files,
                                               ![t].touched = TRUE,
                                               ![t].i = 1, ![t].pc = "file"]
                 /\ UNCHANGED running
     ELSE /\ handler' = [handler EXCEPT ![t].pc = "embed"]
          /\ UNCHANGED running
  /\ UNCHANGED <<manager, chunker, singleton>>

\* ingest lines 76-88: the loop is over, or the file is no .txt, or its
\* content is awaited
IngestFile(t) ==
  /\ handler[t].pc = "file"
  /\ running = t
  /\ LET a == handler[t]
     IN  IF a.i > a.files
         THEN /\ handler' = [handler EXCEPT ![t].pc = "persist"]
              /\ UNCHANGED running
         ELSE \E kind \in FileKinds :
                IF kind = "pdf"
                THEN /\ handler' = [handler EXCEPT ![t] = OnFileSkipped(a)]
                     /\ UNCHANGED running
                ELSE /\ handler' = [handler EXCEPT ![t].pc = "read"]
                     /\ running' = NoThread
  /\ UNCHANGED <<manager, chunker, singleton>>

\* lines 103-110: after chunk_text comes embed_texts
AfterChunkAdd == "add"
AfterChunk == "embed"

\* ingest lines 88-107: file.read() returns or raises; a text of
\* whitespace is skipped, another one is chunked into n chunks
IngestRead(t) ==
  /\ handler[t].pc = "read"
  /\ CanRun(t)
  /\ running' = t
  /\ LET a == handler[t]
     IN  \E ok \in BOOLEAN, kind \in FileKinds \ {"pdf"} :
           IF ~ok THEN handler' = [handler EXCEPT ![t] = OnFileError(a)]
           ELSE IF kind = "empty"
           THEN handler' = [handler EXCEPT ![t] = OnFileSkipped(a)]
           ELSE \E n \in ChunkCounts :
                  handler' = [handler EXCEPT ![t].n = n, ![t].pc = AfterChunk]
  /\ UNCHANGED <<manager, chunker, singleton>>

\* ingest line 110: embed_texts(chunks); retrieve lines 35-39, generate
\* lines 101-105: embed_single(query), then get_index_manager.  The model
\* may raise: in ingest that is the file's error, in a query the request's
HandlerEmbed(t) ==
  /\ handler[t].pc = "embed"
  /\ running = t
  /\ LET a == handler[t]
     IN  \E ok \in BOOLEAN :
           IF a.endpoint = "ingest"
           THEN /\ handler' = [handler EXCEPT ![t] =
                     IF ok THEN [a EXCEPT !.embedded = TRUE, !.pc = "add"]
                     ELSE OnFileError(a)]
                /\ UNCHANGED running
           ELSE IF ok
                THEN /\ handler' = [handler EXCEPT ![t].embedded = TRUE,
                                                   ![t].touched = TRUE,
                                                   ![t].pc = "search"]
                     /\ UNCHANGED running
                ELSE Respond(t, 500)
  /\ UNCHANGED <<manager, chunker, singleton>>

\* ingest lines 113-124: add_documents is called with the n chunks, n
\* languages, n filenames and n chunk indices.  What the chunks say plays
\* no part in the handler: they are all of one text
IngestAddBegin(t) ==
  /\ handler[t].pc = "add"
  /\ running = t
  /\ AddBegin(t)
  /\ call'[t].lens = [j \in 1..5 |-> handler[t].n]
  /\ call'[t].texts = [j \in 1..handler[t].n |-> "a"]

\* the embeddings are those of the model the manager was made for
IngestAddVectors(t) ==
  /\ AddVectors(t)
  /\ ~HasWrongDimension(IF last' = NoLast THEN call'[t].embeddings
                                          ELSE last'.arg.embeddings)

\* ingest lines 118-145: add_documents has returned or raised
IngestAdded(t) ==
  /\ handler[t].pc = "add"
  /\ running = t
  /\ last.op = "add"
  /\ LET a == handler[t]
     IN  handler' = [handler EXCEPT ![t] =
           IF last.outcome = "ok"
           THEN [a EXCEPT !.total = @ + a.n, !.processed = @ + 1,
                          !.details = Append(@, [status |-> "success",
                                                 chunks |-> a.n]),
                          !.i = @ + 1, !.n = 0, !.embedded = FALSE,
                          !.pc = "file"]
           ELSE OnFileError(a)]
  /\ last' = NoLast
  /\ UNCHANGED <<stores, chunker, running, singleton>>

\* ingest lines 148-149: persist() is called
IngestPersistBegin(t) ==
  /\ handler[t].pc = "persist"
  /\ running = t
  /\ PersistBegin(t)

\* ingest lines 150-159: an exception of persist() is logged and dropped,
\* the response is sent
IngestPersisted(t) ==
  /\ handler[t].pc = "persist"
  /\ running = t
  /\ last.op = "persist"
  /\ handler' = [handler EXCEPT ![t].persists = @ + 1,
                                 ![t].pc = "responded", ![t].status = 200]
  /\ last' = NoLast
  /\ UNCHANGED <<stores, chunker, running, singleton>>

\* retrieve line 40, generate line 106: search is called
QuerySearchBegin(t) ==
  /\ handler[t].pc = "search"
  /\ running = t
  /\ SearchBegin(t)

\* with the embedding of the query and the validated top_k
\* (1 <= top_k <= 10, schemas.py lines 17 and 44)
QuerySearchEnd(t) ==
  /\ SearchEnd(t)
  /\ handler[t].pc = "search"
  /\ \E x \in Texts : last'.arg.query = Embed(x)
  /\ last'.arg.top_k >= 1

\* the languages the results may be wanted in: request.output_language if
\* given (retrieve line 59); in generate else the language of the query
\* (line 124)
OutputLanguages(a) ==
  {"en", "ja"} \cup (IF a.endpoint = "generate" THEN {} ELSE {"none"})

\* retrieve lines 42-61, generate lines 108-140: search raised (500), or
\* returned nothing, or results of which some are to be translated
QuerySearched(t) ==
  /\ handler[t].pc = "search"
  /\ running = t
  /\ last.op = "search"
  /\ IF last.outcome # "ok" THEN Respond(t, 500)
     ELSE \E wanted \in OutputLanguages(handler[t]) :
            IF wanted # "none"
               /\ \E i \in 1..Len(last.value) :
                    last.value[i].language # wanted
            THEN /\ handler' = [handler EXCEPT ![t].pc = "translate"]
                 /\ UNCHANGED running
            ELSE Respond(t, 200)
  /\ last' = NoLast
  /\ UNCHANGED <<stores, chunker, singleton>>

\* retrieve line 60, generate line 140: translate(); it may raise
QueryTranslate(t) ==
  /\ handler[t].pc = "translate"
  /\ running = t
  /\ \E ok \in BOOLEAN : Respond(t, IF ok THEN 200 ELSE 500)
  /\ UNCHANGED <<manager, chunker, singleton>>

\* the response has been sent and the event loop is left
Close(t) ==
  /\ handler[t].pc = "responded"
  /\ running = t
  /\ handler' = [handler EXCEPT ![t] = NoHandler]
  /\ running' = NoThread
  /\ UNCHANGED <<manager, chunker, singleton>>

NextApi ==
  \/ \E t \in Threads : Receive(t)
  \/ \E t \in Threads : Authenticate(t)
  \/ \E t \in Threads : HandlerStart(t)
  \/ \E t \in Threads : IngestFile(t)
  \/ \E t \in Threads : IngestRead(t)
  \/ \E t \in Threads : HandlerEmbed(t)
  \/ \E t \in Threads : IngestAddBegin(t)
  \/ \E t \in Threads : AddInsert(t)
  \/ \E t \in Threads : IngestAddVectors(t)
  \/ \E t \in Threads : AddCommit(t)
  \/ \E t \in Threads : IngestAdded(t)
  \/ \E t \in Threads : IngestPersistBegin(t)
  \/ \E t \in Threads : PersistEnd(t)
  \/ \E t \in Threads : IngestPersisted(t)
  \/ \E t \in Threads : QuerySearchBegin(t)
  \/ \E t \in Threads : QuerySearchEnd(t)
  \/ \E t \in Threads : QuerySearched(t)
  \/ \E t \in Threads : QueryTranslate(t)
  \/ \E t \in Threads : Close(t)

SpecApi == Init /\ [][NextApi]_vars

(***************************************************************************)
(* get_index_manager (src/app/storage/faiss_index.py, lines 226-243),     *)
(* called by threads.  The function takes no lock; each load and store of *)
(* the global is a step of its own.                                        *)
(***************************************************************************)
\* the most calls of get_index_manager by one thread
MaxCalls == 2

\* the thread moves on in get_index_manager
Step(t, where) == [singleton EXCEPT !.pc[t] = where]

\* get_index_manager is called
GetEnter(t) ==
  /\ singleton.pc[t] = "idle"
  /\ singleton.calls[t] < MaxCalls
  /\ singleton' = [Step(t, "check") EXCEPT !.calls[t] = @ + 1,
                                           !.local[t] = 0]
  /\ UNCHANGED <<manager, chunker, handler, running>>

\* line 232: the global is read and tested
GetCheck(t) ==
  /\ singleton.pc[t] = "check"
  /\ singleton' = Step(t, IF singleton.global = 0 THEN "construct"
                                                   ELSE "return")
  /\ UNCHANGED <<manager, chunker, handler, running>>

\* lines 233-241: the embedding model is fetched and a FaissIndexManager,
\* with a lock of its own, constructed
GetConstruct(t) ==
  /\ singleton.pc[t] = "construct"
  /\ singleton' = [Step(t, "assign") EXCEPT !.made = @ + 1,
                                            !.local[t] = singleton.made + 1]
  /\ UNCHANGED <<manager, chunker, handler, running>>

\* line 237: _index_manager = the new manager
GetAssign(t) ==
  /\ singleton.pc[t] = "assign"
  /\ singleton' = [Step(t, "return") EXCEPT !.global = singleton.local[t]]
  /\ UNCHANGED <<manager, chunker, handler, running>>

\* line 242: return _index_manager, the global as it is now
GetReturn(t) ==
  /\ singleton.pc[t] = "return"
  /\ singleton' = [Step(t, "have") EXCEPT
                     !.local[t] = singleton.global,
                     !.returned = @ \cup {singleton.global}]
  /\ UNCHANGED <<manager, chunker, handler, running>>

\* the caller enters a method of the manager it was given: with
\* self.lock, the lock of that manager
UseBegin(t) ==
  /\ singleton.pc[t] = "have"
  /\ singleton.local[t] \notin singleton.locked
  /\ singleton' = [Step(t, "using") EXCEPT
                     !.locked = @ \cup {singleton.local[t]}]
  /\ UNCHANGED <<manager, chunker, handler, running>>

\* and leaves it
UseEnd(t) ==
  /\ singleton.pc[t] = "using"
  /\ singleton' = [Step(t, "idle") EXCEPT
                     !.locked = @ \ {singleton.local[t]}]
  /\ UNCHANGED <<manager, chunker, handler, running>>

NextSingleton ==
  \/ \E t \in Threads : GetEnter(t)
  \/ \E t \in Threads : GetCheck(t)
  \/ \E t \in Threads : GetConstruct(t)
  \/ \E t \in Threads : GetAssign(t)
  \/ \E t \in Threads : GetReturn(t)
  \/ \E t \in Threads : UseBegin(t)
  \/ \E t \in Threads : UseEnd(t)

SpecSingleton == Init /\ [][NextSingleton]_vars

(***************************************************************************)
(* Properties.  "After a call returns" is the state in which last holds    *)
(* that call; last.arg.pre holds the stores as the call found them.        *)
(***************************************************************************)
AddPcs == {"add_insert", "add_index", "add_commit"}
ReaderPcs == {"search", "stats"}
InCS(t) == pc[t] # "idle"
Ids(rs) == {r.id : r \in rs}

\* the SELECT of line 184 finds a row for the 0-based position p
HasRow(p, rs) == (p + 1) \in Ids(rs)

\* the result dict built from row r for query q (lines 190-197)
ResultOf(r, q, idx) ==
  [doc_id |-> r.doc_id, text |-> r.text, language |-> r.language,
   filename |-> r.filename, score |-> Dot(q, idx[r.id])]

\* how many of the matched positions have no row
Skipped(matched, rs) ==
  Cardinality({i \in 1..Len(matched) : ~HasRow(matched[i], rs)})

\* a search with a query of the manager's dimension has returned from an
\* index holding vectors
SearchedNonEmpty ==
  /\ last.op = "search"
  /\ Len(index) > 0
  /\ Len(last.arg.query) = dimension

\* the characters of window w of chunk_text's loop
WindowText(w) == PySlice(chunker.text, w[1], w[2])

\* the window gave a chunk (line 46)
GaveChunk(w) == Strip(WindowText(w)) # <<>>

\* the positions at which delimiter d occurs in the characters win
Occurrences(win, d) ==
  {p \in 0..(Len(win) - Len(d)) : SubSeq(win, p + 1, p + Len(d)) = d}

\* the delimiter kinds with an occurrence beyond 60% of max_size in win
KindsBeyond(win, max_size) ==
  {k \in 1..Len(Delimiters) :
     \E p \in Occurrences(win, Delimiters[k]) : 10 * p > 6 * max_size}

\* the last position of the most preferred kind of KindsBeyond
PreferredLast(win, max_size) ==
  LET kinds == KindsBeyond(win, max_size)
      k == CHOOSE i \in kinds : \A j \in kinds : i <= j
      occ == Occurrences(win, Delimiters[k])
  IN  [kind |-> k, at |-> CHOOSE p \in occ : \A q \in occ : q <= p]

\* the windows of the loop that stop short of the end of the text
InnerWindows ==
  {i \in 1..Len(chunker.windows) :
     chunker.windows[i][1] + chunker.max_size < Len(chunker.text)}

\* C1: after every add_documents call returns, successful or failing, the
\* metadata table has as many rows as the vector index has vectors.
C1_CountsEqualAfterAdd ==
  last.op = "add" => Cardinality(rows) = Len(index)

\* C2: whenever no add is in progress, a row with id k exists exactly when
\* a vector exists at position k-1, that vector is the embedding supplied
\* with the row's text, and every search result carries the metadata of
\* the chunk whose vector matched (its score is that chunk's similarity).
C2_PositionMatchesRow ==
  /\ (\A t \in Threads : pc[t] \notin AddPcs) =>
       /\ Ids(rows) = 1..Len(index)
       /\ \A r \in rows : r.id <= Len(index) => index[r.id] = Embed(r.text)
  /\ (last.op = "search" /\ last.outcome = "ok") =>
       \A i \in 1..Len(last.value) :
         last.value[i].score = Dot(last.arg.query, Embed(last.value[i].text))

\* C3: an add_documents call whose five argument lists are not all of one
\* length fails, and leaves the row count and the vector count unchanged.
C3_ArityMismatchRejected ==
  (last.op = "add" /\ LensDiffer(last.arg.lens)) =>
    /\ last.outcome = "error"
    /\ Cardinality(rows) = Cardinality(last.arg.pre.rows)
    /\ Len(index) = Len(last.arg.pre.index)

\* C4: an add_documents call that fails, at whatever step, leaves the rows
\* and the vectors exactly as it found them.
C4_FailedAddChangesNothing ==
  (last.op = "add" /\ last.outcome = "error") =>
    /\ rows = last.arg.pre.rows
    /\ index = last.arg.pre.index

\* C5: an add_documents call whose embeddings hold a vector of a length
\* other than the dimension fails, commits no row and appends no vector.
C5_WrongDimensionRejected ==
  (last.op = "add" /\ HasWrongDimension(last.arg.embeddings)) =>
    /\ last.outcome = "error"
    /\ rows = last.arg.pre.rows
    /\ index = last.arg.pre.index

\* C5 witness: a call with a wrong-length vector has returned after it had
\* inserted rows in its transaction, into a store that already held rows.
C5_Witness ==
  /\ last.op = "add"
  /\ HasWrongDimension(last.arg.embeddings)
  /\ last.arg.i > 0
  /\ last.arg.pre.rows # {}
  /\ last.arg.pre.index # <<>>

\* C6: the rows a successful add_documents commits have the ids max+1,
\* max+2, ... of the store it found, and the committed ids are exactly
\* 1..n, also after failed calls and restarts.
C6_IdsAreMaxPlusOne ==
  (last.op = "add" /\ last.outcome = "ok") =>
    LET before == last.arg.pre.rows
        added == rows \ before
    IN  /\ Ids(added) = (MaxId(before) + 1)..(MaxId(before) + Cardinality(added))
        /\ Ids(rows) = 1..Cardinality(rows)

\* C7: after a restart the id counter is the largest id in the metadata
\* store (0 when it is empty), whatever the state of the artifact.
C7_CounterRestored ==
  last.op = "restart" => counter = MaxId(rows)

\* C8: persist() followed by the construction of a fresh manager over the
\* same paths gives the get_stats() the first manager had.
C8_PersistReloadSameStats ==
  (last.op = "restart" /\ last.after = <<"persist", "ok">>) =>
    GetStats(rows, index) = GetStats(last.arg.pre.rows, last.arg.pre.index)

\* C8 witness: a manager holding rows and vectors was persisted and
\* constructed again.
C8_Witness ==
  /\ last.op = "restart"
  /\ last.after = <<"persist", "ok">>
  /\ last.arg.pre.rows # {}
  /\ Len(last.arg.pre.index) > 1
  /\ last.arg.pre.file.state = "ok"

\* C9: at most one thread is inside add_documents, search, persist or
\* get_stats, and while a search or get_stats is inside, no batch is
\* partly applied (no uncommitted row, no add between its steps) and the
\* stores are as the reader found them when it entered.
C9_MutualExclusion ==
  /\ \A t \in Threads, u \in Threads : t # u => ~(InCS(t) /\ InCS(u))
  /\ \A t \in Threads : pc[t] \in ReaderPcs =>
       /\ \A u \in Threads : tx[u] = {} /\ pc[u] \notin AddPcs
       /\ rows = call[t].pre.rows
       /\ index = call[t].pre.index

\* C9 witness: an add is inside with its batch partly applied (vectors
\* appended, rows not yet committed) while another thread is outside.
C9_Witness ==
  \E t \in Threads, u \in Threads :
    /\ pc[t] = "add_commit"
    /\ tx[t] # {}
    /\ Len(index) > Len(call[t].pre.index)
    /\ u # t
    /\ pc[u] = "idle"

\* C10: after a restart every row committed before it is still there, and
\* an artifact holding fewer vectors than there are rows is not loaded and
\* served as current.
C10_StaleArtifactNotServed ==
  last.op = "restart" =>
    /\ last.arg.pre.rows \subseteq rows
    /\ ~(last.value = "loaded" /\ Len(index) < Cardinality(rows))

\* C11: a search with top_k >= 1 on a non-empty consistent index (rows
\* 1..n for n vectors) returns exactly min(top_k, n) results, never more
\* than top_k, in non-increasing score order, each the doc_id, text,
\* language and filename of one row with that row's vector's score.
C11_SearchReturnsTopK ==
  (SearchedNonEmpty /\ last.arg.top_k >= 1 /\ Ids(rows) = 1..Len(index)) =>
    /\ last.outcome = "ok"
    /\ Len(last.value) = Min(last.arg.top_k, Len(index))
    /\ Len(last.value) <= last.arg.top_k
    /\ \A i \in 1..Len(last.value), j \in 1..Len(last.value) :
         i < j => /\ last.value[i].score >= last.value[j].score
                  /\ last.value[i].doc_id # last.value[j].doc_id
    /\ \A i \in 1..Len(last.value) :
         \E r \in rows : last.value[i] = ResultOf(r, last.arg.query, index)

\* C11 witness: a search over two consistent vectors returned both, the
\* better one first.
C11_Witness ==
  /\ SearchedNonEmpty
  /\ Ids(rows) = 1..Len(index)
  /\ Len(index) = 2
  /\ Len(last.value) = 2
  /\ last.value[1].score > last.value[2].score

\* C12: a search on an index holding no vector returns the empty sequence
\* and raises nothing, whatever the query and top_k.
C12_EmptyIndexEmptyResult ==
  (last.op = "search" /\ Len(index) = 0) =>
    /\ last.outcome = "ok"
    /\ last.value = <<>>

\* C12 witness: a search with a query of the wrong length and a negative
\* top_k has returned from an empty index whose metadata store holds rows.
C12_Witness ==
  /\ last.op = "search"
  /\ Len(index) = 0
  /\ Len(last.arg.query) # dimension
  /\ last.arg.top_k < 0
  /\ rows # {}

\* C13: on a non-empty index search behaves, for every integer top_k, as
\* it does for top_k clamped to 1..n, n the number of vectors.
C13_TopKClamped ==
  SearchedNonEmpty =>
    LET clamped == IF last.arg.top_k < 1 THEN 1
                   ELSE Min(last.arg.top_k, Len(index))
    IN  <<last.outcome, last.value, last.arg.matched>>
          \in SearchOutcomes(last.arg.query, clamped, index, rows)

\* C14: a search whose index holds a position with no row of id
\* position + 1 does not fail; it returns, in the order matched, the result
\* of every matched position that has a row and nothing for the others.
C14_MissingRowSkipped ==
  (SearchedNonEmpty /\ last.arg.top_k >= 1
     /\ \E p \in 0..(Len(index) - 1) : ~HasRow(p, rows)) =>
    LET Has(p) == HasRow(p, rows)
        kept == SelectSeq(last.arg.matched, Has)
    IN  /\ last.outcome = "ok"
        /\ Len(last.arg.matched) = Min(last.arg.top_k, Len(index))
        /\ Len(last.value) = Len(kept)
        /\ \A i \in 1..Len(kept) :
             \E r \in rows : /\ r.id = kept[i] + 1
                            /\ last.value[i] = ResultOf(r, last.arg.query, index)

\* C14 witness: the best match had no row, a later match had one, and the
\* search returned the later one.
C14_Witness ==
  /\ SearchedNonEmpty
  /\ last.outcome = "ok"
  /\ Len(last.value) > 0
  /\ \E i \in 1..Len(last.arg.matched), j \in 1..Len(last.arg.matched) :
       /\ i < j
       /\ ~HasRow(last.arg.matched[i], rows)
       /\ HasRow(last.arg.matched[j], rows)

\* C15: a search that skipped k > 0 matched positions for want of a row
\* writes a log record carrying that k.
C15_SkipsReported ==
  (last.op = "search" /\ last.outcome = "ok"
     /\ Skipped(last.arg.matched, rows) > 0) =>
    \E i \in 1..Len(last.log) :
      /\ last.log[i].msg = "skipped"
      /\ last.log[i].n = Skipped(last.arg.matched, rows)

\* C16: a successful add_documents with n texts returns n doc ids, the
\* j-th being "doc_" and the id of the row committed for the j-th text,
\* the ids consecutive and increasing.
C16_DocIdsReturned ==
  (last.op = "add" /\ last.outcome = "ok") =>
    /\ Len(last.value) = last.arg.lens[1]
    /\ \E base \in 0..MaxDocs :
         \A j \in 1..last.arg.lens[1] :
           /\ last.value[j] = DocId(base + j)
           /\ \E r \in rows \ last.arg.pre.rows :
                r.id = base + j /\ r.text = last.arg.texts[j]

\* C17: persist() leaves the rows, the in-memory index and the counter as
\* it found them, and on an empty index it raises nothing and leaves the
\* artifact as it was.
C17_PersistFrame ==
  last.op = "persist" =>
    /\ rows = last.arg.pre.rows
    /\ index = last.arg.pre.index
    /\ counter = last.arg.pre.counter
    /\ Len(last.arg.pre.index) = 0 =>
         /\ last.outcome = "ok"
         /\ file = last.arg.pre.file

\* C17 witness: persist() has returned from a manager with an empty index,
\* committed rows and an unreadable artifact.
C17_Witness ==
  /\ last.op = "persist"
  /\ Len(index) = 0
  /\ rows # {}
  /\ file.state = "corrupt"

\* C18: construction over an artifact that cannot be read completes, with
\* an empty index, and writes a warning log record.
C18_UnloadableArtifactFallsBack ==
  (last.op = "restart" /\ last.arg.pre.file.state = "corrupt") =>
    /\ last.outcome = "ok"
    /\ index = <<>>
    /\ \E i \in 1..Len(last.log) : last.log[i].level = "warning"

\* C18 witness: a manager holding rows and vectors was constructed again
\* over an unreadable artifact.
C18_Witness ==
  /\ last.op = "restart"
  /\ last.arg.pre.file.state = "corrupt"
  /\ last.arg.pre.index # <<>>
  /\ rows # {}

\* C19: the manager never holds an index whose vector length differs from
\* the dimension it was constructed with and reports in get_stats.
C19_IndexHasConfiguredDimension ==
  indexDim = dimension

\* C20: when the write of the artifact fails, persist() raises and the
\* rows, the in-memory index and the counter are as the call found them.
C20_WriteFailureRaised ==
  (last.op = "persist" /\ last.value = "write_failed") =>
    /\ last.outcome = "error"
    /\ rows = last.arg.pre.rows
    /\ index = last.arg.pre.index
    /\ counter = last.arg.pre.counter

\* C20 witness: the write failed and truncated the artifact of a manager
\* whose rows and vectors were already out of step.
C20_Witness ==
  /\ last.op = "persist"
  /\ last.value = "write_failed"
  /\ file.state = "corrupt"
  /\ rows # {}
  /\ Cardinality(rows) < Len(index)

\* C21: right after a successful add_documents, a search with top_k >= 1
\* whose query is one of the vectors just added returns the document of
\* that vector, and no result returned has a higher score than it.
C21_AddedVectorFound ==
  (last.op = "add" /\ last.outcome = "ok") =>
    \A j \in 1..Min(Len(last.value), Len(last.arg.embeddings)) :
      \A top_k \in 1..MaxK :
        \A out \in SearchOutcomes(last.arg.embeddings[j], top_k, index, rows) :
          /\ out[1] = "ok"
          /\ \E i \in 1..Len(out[2]) :
               /\ out[2][i].doc_id = last.value[j]
               /\ \A h \in 1..Len(out[2]) : out[2][h].score <= out[2][i].score

\* C22: in chunk_text with 0 <= overlap < max_size the window start is
\* never negative and strictly increases from one iteration to the next.
C22_StartStrictlyIncreases ==
  LET w == chunker.windows
  IN  /\ \A i \in 1..Len(w) : w[i][1] >= 0
      /\ \A i \in 1..(Len(w) - 1) : w[i + 1][1] > w[i][1]
      /\ (chunker.pc = "loop" /\ w # <<>>) => chunker.start > w[Len(w)][1]

\* C23: for a text no longer than max_size chunk_text returns one chunk,
\* the text itself.
C23_ShortTextOneChunk ==
  (chunker.pc = "done" /\ Len(chunker.text) <= chunker.max_size) =>
    chunker.chunks = <<chunker.text>>

\* C23 witness: chunk_text has returned for a text of exactly max_size
\* characters that starts with whitespace.
C23_Witness ==
  /\ chunker.pc = "done"
  /\ Len(chunker.text) = chunker.max_size
  /\ chunker.text[1] \in Whitespace

C25_WindowsCoverText ==
  chunker.pc = "done" =>
    LET w == chunker.windows
        kept == SelectSeq(w, GaveChunk)
    IN  /\ w # <<>>
        /\ w[1][1] = 0
        /\ w[Len(w)][2] >= Len(chunker.text)
        /\ \A i \in 1..(Len(w) - 1) : w[i + 1][1] = w[i][2] - chunker.overlap
        /\ \A p \in 0..(Len(chunker.text) - 1) :
             chunker.text[p + 1] \notin Whitespace =>
               \E i \in 1..Len(kept) : kept[i][1] <= p /\ p < kept[i][2]
        /\ Len(chunker.text) > chunker.max_size =>
             /\ Len(chunker.chunks) = Len(kept)
             /\ \A i \in 1..Len(kept) :
                  chunker.chunks[i] = Strip(WindowText(kept[i]))

\* C25 witness: chunk_text has returned after three or more windows that
\* overlap, one of which held whitespace only and gave no chunk.
C25_Witness ==
  /\ chunker.pc = "done"
  /\ Len(chunker.windows) >= 3
  /\ chunker.overlap > 0
  /\ \E i \in 1..Len(chunker.windows) : ~GaveChunk(chunker.windows[i])

\* C26: every chunk chunk_text returns, for any text, is not empty after
\* trimming and has at most max_size characters.
C26_ChunksNonEmptyBounded ==
  chunker.pc = "done" =>
    \A i \in 1..Len(chunker.chunks) :
      /\ Strip(chunker.chunks[i]) # <<>>
      /\ Len(chunker.chunks[i]) <= chunker.max_size

\* the detail entries of the files add_documents succeeded for
Successes(details) == SelectSeq(details, LAMBDA d : d.status = "success")

\* the chunks counted in the first k detail entries
RECURSIVE ChunksOf(_, _)
ChunksOf(details, k) ==
  IF k = 0 THEN 0 ELSE ChunksOf(details, k - 1) + details[k].chunks

C28_EmbedOutsideLock ==
  \A t \in Threads :
    /\ handler[t].pc \in {"embed", "translate"} => lock = NoThread
    /\ (lock = t /\ pc[t] \in AddPcs \cup {"search"}) => handler[t].embedded

\* C28 witness: add_documents holds the lock for a handler that has
\* embedded its chunks while the other handler awaits its file.
C28_Witness ==
  \E t \in Threads, u \in Threads :
    /\ lock = t
    /\ pc[t] = "add_insert"
    /\ handler[t].embedded
    /\ handler[u].pc = "read"

\* C29: ingest passes every file, whatever became of the files before it,
\* calls persist() only after the last file and once, and answers with one
\* detail entry per file, files_processed the number of files
\* add_documents succeeded for and total_chunks_added the sum of their
\* chunks.
C29_IngestEveryFileOnePersist ==
  \A t \in Threads :
    LET a == handler[t]
    IN  a.endpoint = "ingest" =>
          /\ a.processed = Len(Successes(a.details))
          /\ a.total = ChunksOf(a.details, Len(a.details))
          /\ \A k \in 1..Len(a.details) :
               a.details[k].status # "success" => a.details[k].chunks = 0
          /\ a.pc \in {"file", "read", "embed", "add"} =>
               /\ a.persists = 0
               /\ pc[t] # "persist"
               /\ Len(a.details) = a.i - 1
          /\ a.pc = "persist" =>
               /\ a.persists = 0
               /\ Len(a.details) = a.files
          /\ (a.pc = "responded" /\ a.status = 200) =>
               /\ a.persists = 1
               /\ Len(a.details) = a.files

\* C29 witness: the response to an upload of two files, the first of
\* which raised and the second of which was added in two chunks, after the
\* one persist().
C29_Witness ==
  \E t \in Threads :
    LET a == handler[t]
    IN  /\ a.pc = "responded"
        /\ a.status = 200
        /\ a.files = 2
        /\ a.details[1].status = "error"
        /\ a.details[2] = [status |-> "success", chunks |-> 2]
        /\ a.persists = 1

\* C30: the process holds one index manager at most: get_index_manager
\* constructs a manager once at most and returns the same instance to
\* every caller, also when the first calls are concurrent, so no two
\* threads are inside managers with separate locks at the same time.
C30_OneManager ==
  /\ singleton.made <= 1
  /\ Cardinality(singleton.returned) <= 1
  /\ Cardinality({t \in Threads : singleton.pc[t] = "using"}) <= 1

\* C33: a search or get_stats call, whatever its arguments and whether it
\* returns or raises, leaves the rows, the vectors of the index, the id
\* counter and the artifact as it found them.
C33_ReadersChangeNothing ==
  last.op \in {"search", "stats"} =>
    /\ rows = last.arg.pre.rows
    /\ index = last.arg.pre.index
    /\ counter = last.arg.pre.counter
    /\ file = last.arg.pre.file

\* C33 witness: a search has raised on a manager that holds rows, vectors,
\* a written artifact and a counter ahead of the rows.
C33_Witness ==
  /\ last.op = "search"
  /\ last.outcome = "error"
  /\ rows # {}
  /\ index # <<>>
  /\ file.state = "ok"
  /\ counter > Cardinality(rows)

\* C32: when add_documents calls of several threads compete for one
\* manager, each call that succeeds is assigned ids that none of the rows
\* committed before it has, forming one contiguous increasing range, and
\* it adds as many rows and as many vectors as its batch has texts (so the
\* final counts are the sum of the batch sizes).
C32_ConcurrentAddsDisjoint ==
  (last.op = "add" /\ last.outcome = "ok") =>
    LET before == last.arg.pre.rows
        added == rows \ before
        n == Len(last.arg.texts)
    IN  /\ Ids(added) \cap Ids(before) = {}
        /\ \E base \in 0..MaxDocs :
             /\ Ids(added) = (base + 1)..(base + Cardinality(added))
             /\ last.value = [j \in 1..Len(last.value) |-> DocId(base + j)]
        /\ Cardinality(rows) = Cardinality(before) + n
        /\ Len(index) = Len(last.arg.pre.index) + n

\* the positions at which a thread holds the lock
HoldingPcs == AddPcs \cup {"search", "persist", "stats"}

====
